---- MODULE Spec2Model ----
(***************************************************************************)
(* State-machine model of AIAgent (src/agent.py): the configuration read   *)
(* at construction, the action registry, the two histories and the run     *)
(* loop, one action per stretch of run() between two calls to the outside  *)
(* (the model client, a registered callable, input()); and of the          *)
(* configuration editor ConfigEditorApp (src/gui.py): the configuration it *)
(* holds and the handlers that change it.                                  *)
(***************************************************************************)
EXTENDS Naturals, Sequences, FiniteSets, TLC

(***************************************************************************)
(* Bounds of the model.                                                    *)
(***************************************************************************)
MaxLoops == 2

(***************************************************************************)
(* Python values.  An optional value (None or a str) is a sequence of      *)
(* length at most one: <<>> is None, <<s>> is the str s.                   *)
(***************************************************************************)
None == <<>>

Truthy_NotNone(v) == v # None

\* the truth value of an optional str: None and "" are false
Truthy(v) == v # None /\ v[1] # ""

Get(d, k, default) == IF k \in DOMAIN d THEN d[k] ELSE default

(***************************************************************************)
(* Configurations as tomllib.load returns them: a mapping with "states"    *)
(* and optionally "initial_state"; every state is a mapping with "prompt"  *)
(* and optionally "temperature", "model" and "transitions".                *)
(***************************************************************************)
CfgScenario ==
    [initial_state |-> "start",
     states |-> [start  |-> [prompt |-> "p_start", transitions |-> <<"middle">>],
                 middle |-> [prompt |-> "p_middle"],
                 error  |-> [prompt |-> "p_error", transitions |-> <<>>,
                             temperature |-> "0.2", model |-> "gpt"]]]

CfgNoError ==
    [initial_state |-> "start",
     states |-> [start  |-> [prompt |-> "p_start", transitions |-> <<"middle">>],
                 middle |-> [prompt |-> "p_middle", transitions |-> <<>>]]]

CfgExit ==
    [initial_state |-> "middle",
     states |-> [start  |-> [prompt |-> "p_start", transitions |-> <<"middle", "exit">>],
                 middle |-> [prompt |-> "p_middle", transitions |-> <<"start">>],
                 error  |-> [prompt |-> "p_error"],
                 exit   |-> [prompt |-> "p_exit", transitions |-> <<>>]]]

CfgNoInitial ==
    [states |-> [middle |-> [prompt |-> "p_middle"],
                 error  |-> [prompt |-> "p_error"]]]

Configs == {CfgScenario, CfgNoError, CfgExit, CfgNoInitial}

(***************************************************************************)
(* What the outside can hand to the agent.                                 *)
(***************************************************************************)
ActionNames == {"search", "calculate"}

Callables == {"f"}

\* run(user_input): absent, empty or a line
InitialInputs == {None, <<"">>, <<"hi">>}

\* what input("You: ") returns
InputLines == {"", "hi"}

\* what a registered callable returns (None, "" or a text)
ActionResults == {None, <<"">>, <<"r1">>}

\* the fields of the JSON object a model may answer with (None: key absent)
LlmActions == {None, <<"">>, <<"search">>, <<"calculate">>}

LlmMessages == {None, <<"">>, <<"m1">>}

LlmNextStates == {None, <<"">>, <<"start">>, <<"middle">>, <<"error">>,
                  <<"exit">>, <<"end">>}

LlmRequireInputs == {None, <<"1">>, <<"0">>}

MkObject(a, m, n, r) ==
    LET f == [action |-> a, message |-> m, next_state |-> n, require_input |-> r]
    IN  [k \in {kk \in DOMAIN f : f[kk] # None} |-> f[k][1]]

LlmObjects ==
    {MkObject(a, m, n, r) : a \in LlmActions, m \in LlmMessages,
                            n \in LlmNextStates, r \in LlmRequireInputs}

\* the outcome of client.chat.completions.create and of reading its content:
\* an exception, a text that is no JSON, a JSON text that is no object, or
\* the text of a JSON object
LlmResponses ==
    {[kind |-> "exception", text |-> "timeout"], [kind |-> "not_json"],
     [kind |-> "not_object"]}
    \cup {[kind |-> "object", obj |-> o] : o \in LlmObjects}

VARIABLES
    config,                \* self.config
    current_state,         \* self.current_state
    conversation_history,  \* self.conversation_history
    search_history,        \* self.search_history
    available_actions,     \* self.available_actions
    pc,                    \* position of the caller in run()
    halt,                  \* how run() was left, "" while it has not been
    loop_count,            \* loop_count of run()
    action,                \* locals of run() in the current iteration
    message,
    next_state,
    require_input,
    action_result,
    llm_request,           \* arguments of this iteration's chat.completions.create
    stdout,                \* lines this iteration printed outside dev mode
    called,                \* the callable this iteration invoked
    iter,                  \* events of the current iteration
    total,                 \* events of the whole run, counted
    run_input,             \* the argument of run(), until the loop starts
    config_data,           \* ConfigEditorApp.config_data
    shared,                \* the sets of states whose 'transitions' are one list object
    key_order,             \* the keys of config_data['states'], in the dict's order
    messagebox             \* the last message box the editor showed

vars == <<config, current_state, conversation_history, search_history,
          available_actions, pc, halt, loop_count, action, message,
          next_state, require_input, action_result, llm_request, stdout,
          called, iter, total, run_input, config_data, shared, key_order,
          messagebox>>

\* the state of the editor
editor == <<config_data, shared, key_order, messagebox>>

\* the state of the agent
agent == <<config, current_state, conversation_history, search_history,
           available_actions, pc, halt, loop_count, action, message,
           next_state, require_input, action_result, llm_request, stdout,
           called, iter, total, run_input>>

\* the variables that live for one iteration only
locals == <<action, message, next_state, require_input, action_result,
            llm_request, stdout, called, iter>>

Range(s) == {s[i] : i \in 1..Len(s)}

\* defaulted: the keys among next_state and require_input that the response
\* of this iteration did not have, so that response.get gave the default;
\* raised: the callable of this iteration's dispatch raised
NoEvents == [llm |-> 0, dispatch |-> 0, decision |-> 0, response |-> "",
             defaulted |-> {}, raised |-> FALSE]

\* overwritten: the <<name, callable>> registrations that a later
\* registration of the name with another callable replaced
NoTotals == [llm |-> 0, input |-> 0, search_hits |-> 0, other_hits |-> 0,
             overwritten |-> {}]

(***************************************************************************)
(* The pure parts of the code.                                             *)
(***************************************************************************)
\* self.config.get("initial_state", "start")
InitialState(cfg) == Get(cfg, "initial_state", "start")

\* state_config = self.config["states"].get(self.current_state); a state is
\* found when the lookup gives a non-empty mapping
StateFound(cfg, s) == s \in DOMAIN cfg.states /\ DOMAIN cfg.states[s] # {}

\* state_config.get("transitions", [])
AllowedTransitions(state_config) == Get(state_config, "transitions", <<>>)

TransitionValid_EmptyMeansNone(cfg, allowed, ns) ==
    ns \in DOMAIN cfg.states /\ ns \in Range(allowed)

TransitionValid_SentinelAlways(cfg, allowed, ns) ==
    ns = "exit" \/ (ns \in DOMAIN cfg.states /\ (allowed = <<>> \/ ns \in Range(allowed)))

TransitionValid_NoStateCheck(cfg, allowed, ns) ==
    allowed = <<>> \/ ns \in Range(allowed)

\* next_state in self.config["states"] and
\* (not allowed_transitions or next_state in allowed_transitions)
TransitionValid(cfg, allowed, ns) ==
    ns \in DOMAIN cfg.states /\ (allowed = <<>> \/ ns \in Range(allowed))

IsTerminal_Error(ns) == ns = "exit" \/ ns = "" \/ ns = "error"

IsTerminal_NoEmpty(ns) == ns = "exit"

IsTerminal_WithEnd(ns) == ns = "exit" \/ ns = "end" \/ ns = ""

\* next_state == "exit" or next_state == ""
IsTerminal(ns) == ns = "exit" \/ ns = ""

InputRequired_Truthy(r) == r # ""

\* require_input == "1"
InputRequired(r) == r = "1"

ActionRegistered_UnlessTerminal(a, registry) ==
    a # "" /\ a \in DOMAIN registry /\ ~IsTerminal(next_state)

\* action and action in self.available_actions
ActionRegistered(a, registry) == a # "" /\ a \in DOMAIN registry

JsonErrorDecision_Empty ==
    [action |-> "error",
     message |-> "I apologize, but I encountered an error processing your request.",
     next_state |-> "",
     require_input |-> "1"]

\* the decision returned on json.JSONDecodeError
JsonErrorDecision ==
    [action |-> "error",
     message |-> "I apologize, but I encountered an error processing your request.",
     next_state |-> "error",
     require_input |-> "1"]

\* the decision returned on any other exception e
ApiErrorDecision(e) ==
    [action |-> "error",
     message |-> "Error occurred: " \o e,
     next_state |-> "error",
     require_input |-> "1"]

\* the value _call_llm returns: a mapping, or whatever else json.loads made
\* of a JSON text that is no object
_call_llm(resp) ==
    CASE resp.kind = "exception"  -> [is_dict |-> TRUE, value |-> ApiErrorDecision(resp.text)]
      [] resp.kind = "not_json"   -> [is_dict |-> TRUE, value |-> JsonErrorDecision]
      [] resp.kind = "not_object" -> [is_dict |-> FALSE, value |-> << >>]
      [] resp.kind = "object"     -> [is_dict |-> TRUE, value |-> resp.obj]

Decision_DefaultNoInput(response) ==
    [action        |-> Get(response, "action", ""),
     message       |-> Get(response, "message", ""),
     next_state    |-> Get(response, "next_state", ""),
     require_input |-> Get(response, "require_input", "0")]

Decision_DefaultError(response) ==
    [action        |-> Get(response, "action", ""),
     message       |-> Get(response, "message", ""),
     next_state    |-> Get(response, "next_state", "error"),
     require_input |-> Get(response, "require_input", "1")]

\* action, message, next_state, require_input = response.get(key, default)
Decision(response) ==
    [action        |-> Get(response, "action", ""),
     message       |-> Get(response, "message", ""),
     next_state    |-> Get(response, "next_state", ""),
     require_input |-> Get(response, "require_input", "1")]

SearchHistoryBlock_ZeroBased(sh) ==
    [i \in 1..Len(sh) |-> [number |-> i - 1, text |-> sh[i]]]

\* the SEARCH HISTORY block of the system prompt: enumerate(search_history),
\* each entry numbered idx+1
SearchHistoryBlock(sh) == [i \in 1..Len(sh) |-> [number |-> i, text |-> sh[i]]]

\* the request _call_llm builds: the system prompt's parts and the whole
\* conversation history after it
LlmRequest(state, sh, prompt, temperature, model, history) ==
    [model |-> model, temperature |-> temperature,
     system |-> [current_state |-> state,
                 search_history_block |-> SearchHistoryBlock(sh),
                 prompt |-> prompt],
     messages |-> history]

\* a printed line, as its fixed prefix and the text put after it
Line(prefix, text) == [prefix |-> prefix, text |-> text]

\* the lines _call_llm prints whatever dev_mode is
RECURSIVE SearchDump(_, _)
SearchDump(sh, i) ==
    IF i > Len(sh) THEN <<>>
    ELSE <<Line("[DEV] Search Result #", ToString(i) \o ":"), Line("", sh[i])>>
         \o SearchDump(sh, i + 1)

SearchPrints(sh) ==
    IF sh = <<>> THEN <<>>
    ELSE <<Line("[DEV] SEARCH HISTORY:", "")>> \o SearchDump(sh, 1)

PrintMessage_Twice(out, m) == out \o <<Line("Agent: ", m), Line("Agent: ", m)>>

\* print(f"Agent: {message}")
PrintMessage(out, m) == Append(out, Line("Agent: ", m))

(***************************************************************************)
(* AIAgent.__init__                                                        *)
(***************************************************************************)
Init ==
    /\ config \in Configs
    /\ current_state = InitialState(config)
    /\ conversation_history = <<>>
    /\ search_history = <<>>
    /\ available_actions = <<>>
    /\ pc = "init"
    /\ halt = ""
    /\ loop_count = 0
    /\ action = ""
    /\ message = ""
    /\ next_state = ""
    /\ require_input = ""
    /\ action_result = None
    /\ llm_request = <<>>
    /\ stdout = <<>>
    /\ called = None
    /\ iter = NoEvents
    /\ total = NoTotals
    /\ run_input = None
    /\ config_data = <<>>
    /\ shared = {}
    /\ key_order = <<>>
    /\ messagebox = <<>>

(***************************************************************************)
(* AIAgent.register_action                                                 *)
(***************************************************************************)
Registered_KeepFirst(registry, action_name, action_func) ==
    [n \in DOMAIN registry \cup {action_name} |->
       IF n \in DOMAIN registry THEN registry[n] ELSE action_func]

\* self.available_actions[action_name] = action_func
Registered(registry, action_name, action_func) ==
    [n \in DOMAIN registry \cup {action_name} |->
       IF n = action_name THEN action_func ELSE registry[n]]

register_action(action_name, action_func) ==
    /\ pc = "init"
    /\ available_actions' = Registered(available_actions, action_name, action_func)
    /\ total' =
         [total EXCEPT !.overwritten =
            (@ \cup (IF /\ action_name \in DOMAIN available_actions
                         /\ available_actions[action_name] # action_func
                      THEN {<<action_name, available_actions[action_name]>>}
                      ELSE {}))
            \ {<<action_name, action_func>>}]
    /\ UNCHANGED <<config, current_state, conversation_history, search_history,
                   pc, halt, loop_count, run_input>>
    /\ UNCHANGED locals
    /\ UNCHANGED editor

(***************************************************************************)
(* AIAgent.run, up to the loop                                             *)
(***************************************************************************)
run_SetsDefault(user_input) ==
    /\ pc = "init"
    /\ config' = [initial_state |-> InitialState(config), states |-> config.states]
    /\ conversation_history' =
         IF Truthy(user_input)
         THEN Append(conversation_history, [role |-> "user", content |-> user_input[1]])
         ELSE conversation_history
    /\ loop_count' = 0
    /\ pc' = "loop"
    /\ run_input' = user_input
    /\ UNCHANGED <<current_state, search_history, available_actions, halt, total>>
    /\ UNCHANGED locals
    /\ UNCHANGED editor

run(user_input) ==
    /\ pc = "init"
    /\ conversation_history' =
         IF Truthy(user_input)
         THEN Append(conversation_history, [role |-> "user", content |-> user_input[1]])
         ELSE conversation_history
    /\ loop_count' = 0
    /\ pc' = "loop"
    /\ run_input' = user_input
    /\ UNCHANGED <<config, current_state, search_history, available_actions,
                   halt, total>>
    /\ UNCHANGED locals
    /\ UNCHANGED editor

(***************************************************************************)
(* One iteration of the loop of run(), in four stretches.                  *)
(*                                                                         *)
(* loop_head: from the top of the loop to the print of the message: the    *)
(* state lookup, the model call, the reading of the response, the          *)
(* assistant turn.  The argument of run() is not read again once the loop  *)
(* has started and is put back to its first value.                         *)
(***************************************************************************)
state_not_found_continue ==
    /\ ~StateFound(config, current_state)
    /\ stdout' = <<Line("Error: ", "State '" \o current_state
                                     \o "' not found in configuration")>>
    /\ pc' = "loop"
    /\ halt' = halt
    /\ UNCHANGED <<current_state, conversation_history, action, message,
                   next_state, require_input, action_result, llm_request,
                   called, iter, total>>

state_not_found_to_error ==
    /\ ~StateFound(config, current_state)
    /\ stdout' = <<Line("Error: ", "State '" \o current_state
                                     \o "' not found in configuration")>>
    /\ pc' = "done"
    /\ halt' = "state_not_found"
    /\ current_state' = "error"
    /\ UNCHANGED <<conversation_history, action, message, next_state,
                   require_input, action_result, llm_request, called, iter,
                   total>>

state_not_found ==
    /\ ~StateFound(config, current_state)
    /\ stdout' = <<Line("Error: ", "State '" \o current_state
                                     \o "' not found in configuration")>>
    /\ pc' = "done"
    /\ halt' = "state_not_found"
    /\ UNCHANGED <<current_state, conversation_history, action, message,
                   next_state, require_input, action_result, llm_request,
                   called, iter, total>>

call_and_record(resp) ==
    LET state_config == config.states[current_state]
        prompt       == state_config.prompt
        temperature  == Get(state_config, "temperature", "0.7")
        model        == Get(state_config, "model", "llama3-70b-8192")
        response     == _call_llm(resp)
        printed      == SearchPrints(search_history)
    IN  /\ StateFound(config, current_state)
        /\ llm_request' = LlmRequest(current_state, search_history, prompt,
                                     temperature, model, conversation_history)
        /\ total' = [total EXCEPT !.llm = @ + 1]
        /\ iter' = [iter EXCEPT !.llm = @ + 1, !.response = resp.kind,
                                !.defaulted =
                                   IF response.is_dict
                                   THEN {"next_state", "require_input"}
                                          \ DOMAIN response.value
                                   ELSE {}]
        /\ IF response.is_dict
           THEN /\ action' = Decision(response.value).action
                /\ message' = Decision(response.value).message
                /\ next_state' = Decision(response.value).next_state
                /\ require_input' = Decision(response.value).require_input
                /\ conversation_history' =
                     Append(conversation_history,
                            [role |-> "assistant", content |-> message'])
                /\ stdout' = PrintMessage(printed, message')
                /\ pc' = "action"
                /\ halt' = halt
           ELSE \* response.get on a value that is no mapping: AttributeError
                /\ stdout' = printed
                /\ pc' = "crashed"
                /\ halt' = "exception"
                /\ UNCHANGED <<action, message, next_state, require_input,
                               conversation_history>>
        /\ UNCHANGED <<current_state, action_result, called>>

loop_head ==
    /\ pc = "loop"
    /\ loop_count < MaxLoops
    /\ loop_count' = loop_count + 1
    /\ \/ state_not_found
       \/ \E resp \in LlmResponses : call_and_record(resp)
    /\ run_input' = None
    /\ UNCHANGED <<config, search_history, available_actions>>
    /\ UNCHANGED editor

(***************************************************************************)
(* dispatch: the call of the registered action and the routing of its      *)
(* result.                                                                 *)
(***************************************************************************)
RouteResult_Overwrite(name, result, conv, sh) ==
    IF ~Truthy(result) THEN [conversation |-> conv, search |-> sh]
    ELSE IF name = "search"
         THEN [conversation |-> conv, search |-> Append(sh, result[1])]
         ELSE [conversation |->
                  [conv EXCEPT ![Len(conv)] =
                     [role |-> "system",
                      content |-> "Action result: " \o result[1]]],
               search |-> sh]

RouteResult_BeforeAssistant(name, result, conv, sh) ==
    IF ~Truthy(result) THEN [conversation |-> conv, search |-> sh]
    ELSE IF name = "search"
         THEN [conversation |-> conv, search |-> Append(sh, result[1])]
         ELSE [conversation |->
                  SubSeq(conv, 1, Len(conv) - 1)
                  \o <<[role |-> "system",
                        content |-> "Action result: " \o result[1]],
                       conv[Len(conv)]>>,
               search |-> sh]

RouteResult_AllToSearch(name, result, conv, sh) ==
    IF ~Truthy(result) THEN [conversation |-> conv, search |-> sh]
    ELSE [conversation |-> conv, search |-> Append(sh, result[1])]

RouteResult_NoSideChannel(name, result, conv, sh) ==
    IF ~Truthy(result) THEN [conversation |-> conv, search |-> sh]
    ELSE [conversation |->
             Append(conv, [role |-> "system",
                           content |-> "Action result: " \o result[1]]),
          search |-> IF name = "search" THEN Append(sh, result[1]) ELSE sh]

\* where a truthy result goes: the search history, or the conversation
\* history as a system turn
RouteResult(name, result, conv, sh) ==
    IF ~Truthy(result) THEN [conversation |-> conv, search |-> sh]
    ELSE IF name = "search"
         THEN [conversation |-> conv, search |-> Append(sh, result[1])]
         ELSE [conversation |->
                  Append(conv, [role |-> "system",
                                content |-> "Action result: " \o result[1]]),
               search |-> sh]

call_action_Caught ==
    \E raises \in BOOLEAN, result \in ActionResults :
       LET routed == RouteResult(action, result, conversation_history,
                                 search_history)
       IN  /\ called' = <<available_actions[action]>>
           /\ iter' = [iter EXCEPT !.dispatch = @ + 1, !.raised = raises]
           /\ pc' = "transition"
           /\ halt' = halt
           /\ IF raises
              THEN UNCHANGED <<action_result, conversation_history,
                               search_history, total>>
              ELSE /\ action_result' = result
                   /\ conversation_history' = routed.conversation
                   /\ search_history' = routed.search
                   /\ total' =
                        IF ~Truthy(result) THEN total
                        ELSE IF action = "search"
                             THEN [total EXCEPT !.search_hits = @ + 1]
                             ELSE [total EXCEPT !.other_hits = @ + 1]

\* the branch of a registered action: the call, which returns or raises
call_action ==
    \E raises \in BOOLEAN, result \in ActionResults :
       LET routed == RouteResult(action, result, conversation_history,
                                 search_history)
       IN  /\ called' = <<available_actions[action]>>
           /\ iter' = [iter EXCEPT !.dispatch = @ + 1, !.raised = raises]
           /\ IF raises
              THEN /\ pc' = "crashed"
                   /\ halt' = "exception"
                   /\ UNCHANGED <<action_result, conversation_history,
                                  search_history, total>>
              ELSE /\ pc' = "transition"
                   /\ halt' = halt
                   /\ action_result' = result
                   /\ conversation_history' = routed.conversation
                   /\ search_history' = routed.search
                   /\ total' =
                        IF ~Truthy(result) THEN total
                        ELSE IF action = "search"
                             THEN [total EXCEPT !.search_hits = @ + 1]
                             ELSE [total EXCEPT !.other_hits = @ + 1]

no_action_KeyError ==
    /\ IF action = "" THEN pc' = "transition" /\ halt' = halt
                      ELSE pc' = "crashed" /\ halt' = "exception"
    /\ UNCHANGED <<conversation_history, search_history, action_result,
                   called, iter, total>>

\* no action named, or one that is not registered: the block is skipped
no_action ==
    /\ pc' = "transition"
    /\ UNCHANGED <<conversation_history, search_history, halt,
                   action_result, called, iter, total>>

dispatch ==
    /\ pc = "action"
    /\ IF ActionRegistered(action, available_actions)
       THEN call_action
       ELSE no_action
    /\ UNCHANGED <<config, current_state, available_actions, loop_count, action,
                   message, next_state, require_input, llm_request, stdout,
                   run_input>>
    /\ UNCHANGED editor

(***************************************************************************)
(* transition: the validation of next_state and the terminal check.        *)
(***************************************************************************)
transition_RejectStays ==
    LET state_config        == config.states[current_state]
        allowed_transitions == AllowedTransitions(state_config)
    IN  /\ pc = "transition"
        /\ IF TransitionValid(config, allowed_transitions, next_state)
           THEN /\ current_state' = next_state
                /\ stdout' = stdout
           ELSE /\ current_state' = current_state
                /\ stdout' = Append(stdout,
                     Line("Error: ", "Invalid transition from '" \o current_state
                                      \o "' to '" \o next_state \o "'"))
        /\ iter' = [iter EXCEPT !.decision = @ + 1]
        /\ IF IsTerminal(next_state)
           THEN pc' = "done" /\ halt' = "terminal"
           ELSE pc' = "input" /\ halt' = halt
        /\ UNCHANGED <<config, conversation_history, search_history,
                       available_actions, loop_count, action, message,
                       next_state, require_input, action_result, llm_request,
                       called, total, run_input>>
        /\ UNCHANGED editor

transition ==
    LET state_config        == config.states[current_state]
        allowed_transitions == AllowedTransitions(state_config)
    IN  /\ pc = "transition"
        /\ IF TransitionValid(config, allowed_transitions, next_state)
           THEN /\ current_state' = next_state
                /\ stdout' = stdout
           ELSE /\ current_state' = "error"
                /\ stdout' = Append(stdout,
                     Line("Error: ", "Invalid transition from '" \o current_state
                                      \o "' to '" \o next_state \o "'"))
        /\ iter' = [iter EXCEPT !.decision = @ + 1]
        /\ IF IsTerminal(next_state)
           THEN pc' = "done" /\ halt' = "terminal"
           ELSE pc' = "input" /\ halt' = halt
        /\ UNCHANGED <<config, conversation_history, search_history,
                       available_actions, loop_count, action, message,
                       next_state, require_input, action_result, llm_request,
                       called, total, run_input>>
        /\ UNCHANGED editor

(***************************************************************************)
(* await_input: the line read for the next iteration, when one is asked.   *)
(* The iteration ends here: nothing reads its locals again before the next *)
(* iteration assigns them, and they are put back to their first values.    *)
(***************************************************************************)
await_input_SkipEmpty ==
    /\ pc = "input"
    /\ IF InputRequired(require_input)
       THEN \E user_input \in InputLines :
              /\ conversation_history' =
                   IF user_input = "" THEN conversation_history
                   ELSE Append(conversation_history,
                               [role |-> "user", content |-> user_input])
              /\ total' = [total EXCEPT !.input = @ + 1]
       ELSE UNCHANGED <<conversation_history, total>>
    /\ pc' = "loop"
    /\ action' = ""
    /\ message' = ""
    /\ next_state' = ""
    /\ require_input' = ""
    /\ action_result' = None
    /\ llm_request' = <<>>
    /\ stdout' = <<>>
    /\ called' = None
    /\ iter' = NoEvents
    /\ UNCHANGED <<config, current_state, search_history, available_actions,
                   halt, loop_count, run_input>>
    /\ UNCHANGED editor

await_input ==
    /\ pc = "input"
    /\ IF InputRequired(require_input)
       THEN \E user_input \in InputLines :
              /\ conversation_history' =
                   Append(conversation_history,
                          [role |-> "user", content |-> user_input])
              /\ total' = [total EXCEPT !.input = @ + 1]
       ELSE UNCHANGED <<conversation_history, total>>
    /\ pc' = "loop"
    /\ action' = ""
    /\ message' = ""
    /\ next_state' = ""
    /\ require_input' = ""
    /\ action_result' = None
    /\ llm_request' = <<>>
    /\ stdout' = <<>>
    /\ called' = None
    /\ iter' = NoEvents
    /\ UNCHANGED <<config, current_state, search_history, available_actions,
                   halt, loop_count, run_input>>
    /\ UNCHANGED editor

Next ==
    \/ \E n \in ActionNames, f \in Callables : register_action(n, f)
    \/ \E u \in InitialInputs : run(u)
    \/ loop_head
    \/ dispatch
    \/ transition
    \/ await_input

Spec == Init /\ [][Next]_vars

(***************************************************************************)
(* The agent with one configuration and registrations that can replace     *)
(* one another: "calculate" is registered with either of two callables,    *)
(* any number of times, "search" with one; the run starts with a line.     *)
(***************************************************************************)
RegistryCallables == {"f", "g"}

InitRegistry == Init /\ config = CfgScenario

NextRegistry ==
    \/ register_action("search", "f")
    \/ \E c \in RegistryCallables : register_action("calculate", c)
    \/ run(<<"hi">>)
    \/ loop_head
    \/ dispatch
    \/ transition
    \/ await_input

SpecRegistry == InitRegistry /\ [][NextRegistry]_vars

(***************************************************************************)
(* ConfigEditorApp (src/gui.py).  The editor holds one configuration,      *)
(* config_data, read from a TOML file; its handlers run one at a time, in  *)
(* the event loop.  The agent is not running meanwhile: the variables of   *)
(* the agent keep the values they have after construction.                 *)
(***************************************************************************)
StateNames == {"a", "b", "c"}

\* what tomllib.load can give: initial_state may be absent or name no state,
\* a state may have no 'transitions', a list may name a state twice or name
\* no state; order is the order of the keys of 'states' in the file
EditorConfigs ==
    {[data  |-> [initial_state |-> "a",
                 states |-> [a |-> [prompt |-> "pa", transitions |-> <<"b">>],
                             b |-> [prompt |-> "pb", transitions |-> <<"a", "b">>]]],
      order |-> <<"a", "b">>],
     [data  |-> [initial_state |-> "a",
                 states |-> [a |-> [prompt |-> "pa", transitions |-> <<"b", "b">>],
                             b |-> [prompt |-> "pb"],
                             c |-> [prompt |-> "pc", transitions |-> <<"z", "b">>]]],
      order |-> <<"b", "a", "c">>],
     [data  |-> [states |-> [a |-> [prompt |-> "pa", transitions |-> <<>>],
                             b |-> [prompt |-> "pb", transitions |-> <<"a">>]]],
      order |-> <<"a", "b">>],
     [data  |-> [initial_state |-> "z",
                 states |-> [a |-> [prompt |-> "pa", transitions |-> <<"a">>]]],
      order |-> <<"a">>]}

\* the text of an entry or text widget, character by character
NameTexts == {<<" ">>, <<" ", "c">>, <<"b", " ">>}

PromptTexts == {<<"q", "\n">>}

\* template_var of the add dialog: "Empty", a state, or a text typed in
Templates == {"Empty", "", "a"}

\* the text of the initial state combobox
InitialStateTexts == {"", "z", "a", "b"}

\* the listbox selection handed to delete_state: None without a selection
Selections == {None} \cup {<<n>> : n \in StateNames}

\* the boxes ticked in the transitions editor
TickedBoxes == {{}, {"b"}, {"a", "b"}}

Whitespace == {" ", "\n"}

\* str.strip()
Strip(t) ==
    LET kept == {i \in 1..Len(t) : t[i] \notin Whitespace}
    IN  IF kept = {} THEN <<>>
        ELSE SubSeq(t, CHOOSE i \in kept : \A j \in kept : i <= j,
                       CHOOSE i \in kept : \A j \in kept : i >= j)

\* the string of a text
RECURSIVE Join(_)
Join(t) == IF t = <<>> THEN "" ELSE t[1] \o Join(Tail(t))

\* d[k] = v
SetItem(d, k, v) == [x \in DOMAIN d \cup {k} |-> IF x = k THEN v ELSE d[x]]

\* del d[k]
DelItem(d, k) == [x \in DOMAIN d \ {k} |-> d[x]]

\* messagebox.showinfo / showerror / askyesno: the kind of box, the words of
\* its message and the name the message puts among them
Msg(kind, text, arg) == [kind |-> kind, text |-> text, arg |-> arg]

\* the states whose 'transitions' are the list object of state n
Group(n, sh) == IF \E g \in sh : n \in g THEN CHOOSE g \in sh : n \in g ELSE {n}

\* the sharing after state n got a list of its own or was deleted
Unshare(sh, n) == {g \ {n} : g \in sh} \ {g \in SUBSET StateNames : Cardinality(g) < 2}

\* list.remove(x): the first occurrence goes
ListRemove(list, x) ==
    LET i == CHOOSE i \in 1..Len(list) :
                 list[i] = x /\ \A j \in 1..(i - 1) : list[j] # x
    IN  SubSeq(list, 1, i - 1) \o SubSeq(list, i + 1, Len(list))

\* for other_state in self.config_data['states'].values(): the removal
\* changes the list object, for every state that holds it
RECURSIVE RemoveFromOthers(_, _, _, _, _)
RemoveFromOthers(states, sh, order, i, state_name) ==
    IF i > Len(order) THEN states
    ELSE LET other_state == states[order[i]]
         IN  IF /\ "transitions" \in DOMAIN other_state
                /\ state_name \in Range(other_state.transitions)
             THEN RemoveFromOthers(
                    [m \in DOMAIN states |->
                       IF m \in Group(order[i], sh)
                       THEN [states[m] EXCEPT
                               !.transitions = ListRemove(@, state_name)]
                       ELSE states[m]],
                    sh, order, i + 1, state_name)
             ELSE RemoveFromOthers(states, sh, order, i + 1, state_name)

\* the state on_add makes for the "Empty" template
EmptyTemplate(state_name) ==
    [prompt      |-> "This is the prompt for " \o state_name \o " state.",
     temperature |-> "0.7",
     model       |-> "qwen/qwen-2.5-72b-instruct",
     transitions |-> <<>>]

\* ConfigEditorApp.__init__ and load_config
InitEditor ==
    /\ \E loaded \in EditorConfigs :
          /\ config_data = loaded.data
          /\ key_order = loaded.order
    /\ shared = {}
    /\ messagebox = Msg("info", "Configuration loaded successfully", "")
    /\ config = CfgScenario
    /\ current_state = InitialState(config)
    /\ conversation_history = <<>>
    /\ search_history = <<>>
    /\ available_actions = <<>>
    /\ pc = "init"
    /\ halt = ""
    /\ loop_count = 0
    /\ action = ""
    /\ message = ""
    /\ next_state = ""
    /\ require_input = ""
    /\ action_result = None
    /\ llm_request = <<>>
    /\ stdout = <<>>
    /\ called = None
    /\ iter = NoEvents
    /\ total = NoTotals
    /\ run_input = None

update_initial_state_Unchecked(new_state) ==
    /\ IF new_state = ""
       THEN /\ messagebox' = Msg("error", "Invalid state: ", new_state)
            /\ UNCHANGED config_data
       ELSE /\ config_data' = SetItem(config_data, "initial_state", new_state)
            /\ messagebox' = Msg("info", "Initial state updated to ", new_state)
    /\ UNCHANGED <<shared, key_order>>
    /\ UNCHANGED agent

update_initial_state(new_state) ==
    /\ IF new_state = "" \/ new_state \notin DOMAIN config_data.states
       THEN /\ messagebox' = Msg("error", "Invalid state: ", new_state)
            /\ UNCHANGED config_data
       ELSE /\ config_data' = SetItem(config_data, "initial_state", new_state)
            /\ messagebox' = Msg("info", "Initial state updated to ", new_state)
    /\ UNCHANGED <<shared, key_order>>
    /\ UNCHANGED agent

\* called from the editor of a state of the configuration, for its prompt
\* or its model
update_state_field(state_name, field_name, new_value) ==
    /\ state_name \in DOMAIN config_data.states
    /\ config_data' =
         [config_data EXCEPT !.states[state_name] =
            SetItem(@, field_name,
                    IF field_name = "prompt" THEN Join(Strip(new_value))
                    ELSE Join(new_value))]
    /\ messagebox' = Msg("info", "Updated " \o field_name \o " for state ", state_name)
    /\ UNCHANGED <<shared, key_order>>
    /\ UNCHANGED agent

\* trans_vars has one checkbox for every state, in the order of the keys;
\* selected are the states whose box is ticked
update_transitions(state_name, selected) ==
    /\ state_name \in DOMAIN config_data.states
    /\ config_data' =
         [config_data EXCEPT !.states[state_name] =
            SetItem(@, "transitions",
                    SelectSeq(key_order, LAMBDA n : n \in selected))]
    /\ shared' = Unshare(shared, state_name)
    /\ messagebox' = Msg("info", "Updated transitions for state ", state_name)
    /\ UNCHANGED key_order
    /\ UNCHANGED agent

\* on_add of the add dialog; dict(template state) copies the keys and shares
\* the values, so the new state holds the list object of the template
on_add(name_text, template) ==
    LET state_name == Join(Strip(name_text))
    IN  /\ IF state_name = ""
           THEN /\ messagebox' = Msg("error", "State name cannot be empty", "")
                /\ UNCHANGED <<config_data, shared, key_order>>
           ELSE IF state_name \in DOMAIN config_data.states
           THEN /\ messagebox' = Msg("error", "State already exists: ", state_name)
                /\ UNCHANGED <<config_data, shared, key_order>>
           ELSE IF template = "Empty"
           THEN /\ config_data' =
                     [config_data EXCEPT !.states =
                        SetItem(@, state_name, EmptyTemplate(state_name))]
                /\ key_order' = Append(key_order, state_name)
                /\ messagebox' = Msg("info", "Added new state: ", state_name)
                /\ UNCHANGED shared
           ELSE IF template \in DOMAIN config_data.states
           THEN /\ config_data' =
                     [config_data EXCEPT !.states =
                        SetItem(@, state_name, config_data.states[template])]
                /\ key_order' = Append(key_order, state_name)
                /\ shared' =
                     IF "transitions" \in DOMAIN config_data.states[template]
                     THEN (shared \ {Group(template, shared)})
                            \cup {Group(template, shared) \cup {state_name}}
                     ELSE shared
                /\ messagebox' = Msg("info", "Added new state: ", state_name)
           ELSE \* KeyError in the callback: nothing is changed
                UNCHANGED <<config_data, shared, key_order, messagebox>>
        /\ UNCHANGED agent

delete_state_NoInitialCheck(state_name, confirm) ==
    /\ IF state_name = None
       THEN /\ messagebox' = Msg("error", "No state selected", "")
            /\ UNCHANGED <<config_data, shared, key_order>>
       ELSE IF state_name[1] \notin DOMAIN config_data.states
       THEN /\ messagebox' = Msg("error", "State not found: ", state_name[1])
            /\ UNCHANGED <<config_data, shared, key_order>>
       ELSE IF ~confirm
       THEN /\ messagebox' = Msg("askyesno", "Confirm Deletion", state_name[1])
            /\ UNCHANGED <<config_data, shared, key_order>>
       ELSE /\ key_order' = SelectSeq(key_order, LAMBDA n : n # state_name[1])
            /\ shared' = Unshare(shared, state_name[1])
            /\ config_data' =
                 [config_data EXCEPT !.states =
                    RemoveFromOthers(DelItem(@, state_name[1]), shared',
                                     key_order', 1, state_name[1])]
            /\ messagebox' = Msg("info", "Deleted state: ", state_name[1])
    /\ UNCHANGED agent

delete_state(state_name, confirm) ==
    /\ IF state_name = None
       THEN /\ messagebox' = Msg("error", "No state selected", "")
            /\ UNCHANGED <<config_data, shared, key_order>>
       ELSE IF state_name[1] \notin DOMAIN config_data.states
       THEN /\ messagebox' = Msg("error", "State not found: ", state_name[1])
            /\ UNCHANGED <<config_data, shared, key_order>>
       ELSE IF ~confirm
       THEN /\ messagebox' = Msg("askyesno", "Confirm Deletion", state_name[1])
            /\ UNCHANGED <<config_data, shared, key_order>>
       ELSE IF /\ "initial_state" \in DOMAIN config_data
               /\ config_data.initial_state = state_name[1]
       THEN /\ messagebox' = Msg("error", "Cannot delete initial state: ", state_name[1])
            /\ UNCHANGED <<config_data, shared, key_order>>
       ELSE /\ key_order' = SelectSeq(key_order, LAMBDA n : n # state_name[1])
            /\ shared' = Unshare(shared, state_name[1])
            /\ config_data' =
                 [config_data EXCEPT !.states =
                    RemoveFromOthers(DelItem(@, state_name[1]), shared',
                                     key_order', 1, state_name[1])]
            /\ messagebox' = Msg("info", "Deleted state: ", state_name[1])
    /\ UNCHANGED agent

NextEditor ==
    \/ \E new_state \in InitialStateTexts : update_initial_state(new_state)
    \/ \E t \in PromptTexts : update_state_field("b", "prompt", t)
    \/ \E n \in StateNames, sel \in TickedBoxes :
          /\ sel \subseteq DOMAIN config_data.states
          /\ update_transitions(n, sel)
    \/ \E t \in NameTexts, template \in Templates : on_add(t, template)
    \/ \E sel \in Selections, confirm \in BOOLEAN : delete_state(sel, confirm)

SpecEditor == InitEditor /\ [][NextEditor]_vars

(***************************************************************************)
(* Helpers of the properties.                                              *)
(***************************************************************************)
Last(s) == s[Len(s)]

Turn(role, content) == [role |-> role, content |-> content]

CountRole(conv, role) == Cardinality({i \in 1..Len(conv) : conv[i].role = role})

AgentLines(out) == Cardinality({i \in 1..Len(out) : out[i].prefix = "Agent: "})

\* the state whose StateSpec this iteration looked up
IterationState == llm_request.system.current_state

(***************************************************************************)
(* C1: a step of transition validation sets current_state to next_state    *)
(* if and only if next_state is a key of the configured states and the     *)
(* transitions list of the current state is empty or holds next_state; in  *)
(* every other case it sets current_state to "error".                      *)
(***************************************************************************)
C1_TransitionValidation ==
    [][pc = "transition" =>
         LET allowed == IF "transitions" \in DOMAIN config.states[current_state]
                        THEN config.states[current_state].transitions
                        ELSE <<>>
             member  == \E i \in 1..Len(allowed) : allowed[i] = next_state
         IN  IF next_state \in DOMAIN config.states /\ (Len(allowed) = 0 \/ member)
             THEN current_state' = next_state
             ELSE current_state' = "error"]_vars

\* an unconfigured state was proposed from a state with an empty list, and
\* the transition step ended in "error"
C1_Witness ==
    /\ pc = "input"
    /\ current_state = "error"
    /\ next_state = "end"
    /\ IterationState = "middle"
    /\ AllowedTransitions(config.states["middle"]) = <<>>

(***************************************************************************)
(* C2: when the proposed next_state is "exit" or the empty string, the     *)
(* transition step ends the run, validated or not: no model call and no    *)
(* input request is made in it, and nothing happens after it.              *)
(***************************************************************************)
C2_TerminalHalts ==
    [][/\ (pc = "transition" /\ next_state \in {"exit", ""}) =>
             /\ pc' = "done"
             /\ halt' = "terminal"
             /\ total'.llm = total.llm
             /\ total'.input = total.input
       /\ pc # "done"]_vars

\* halted on the sentinel proposed from a state whose non-empty list excludes
\* it, the transition having been rejected
C2_Witness ==
    /\ pc = "done"
    /\ halt = "terminal"
    /\ next_state = "exit"
    /\ current_state = "error"
    /\ AllowedTransitions(config.states[IterationState]) # <<>>
    /\ "exit" \notin Range(AllowedTransitions(config.states[IterationState]))

(***************************************************************************)
(* C3: after every model call the engine holds a decision mapping, and     *)
(* after a transport failure or a response that is no decision object the  *)
(* decision is the canned one: action "error", next_state "error",         *)
(* require_input "1".                                                      *)
(***************************************************************************)
C3_AlwaysCannedDecision ==
    iter.response \in {"exception", "not_json", "not_object"} =>
        /\ pc # "crashed"
        /\ action = "error"
        /\ next_state = "error"
        /\ require_input = "1"

C5_SideChannelRouting ==
    [][IF pc = "action" /\ pc' = "transition" /\ iter'.dispatch = iter.dispatch + 1
            /\ action # "search"
       THEN IF action_result' # None /\ action_result'[1] # ""
            THEN conversation_history' =
                   Append(conversation_history,
                          Turn("system", "Action result: " \o action_result'[1]))
            ELSE conversation_history' = conversation_history
       ELSE /\ CountRole(conversation_history', "system") =
                 CountRole(conversation_history, "system")
            /\ (pc = "action" => conversation_history' = conversation_history)]_vars

\* a search result is in the side channel and another action's result is in
\* the conversation history
C5_Witness ==
    /\ Len(search_history) = 1
    /\ CountRole(conversation_history, "system") = 1
    /\ CountRole(conversation_history, "assistant") = 2

(***************************************************************************)
(* C6: a dispatch whose callable returns None or the empty string leaves   *)
(* both histories as they were and goes on to transition validation.       *)
(***************************************************************************)
C6_EmptyResultNoMutation ==
    [][(/\ pc = "action"
        /\ iter'.dispatch = iter.dispatch + 1
        /\ pc' # "crashed"
        /\ (action_result' = None \/ action_result' = <<"">>)) =>
           /\ conversation_history' = conversation_history
           /\ search_history' = search_history
           /\ pc' = "transition"]_vars

\* a registered action (not "search") returned the empty string
C6_Witness ==
    /\ pc = "transition"
    /\ iter.dispatch = 1
    /\ action = "calculate"
    /\ action_result = <<"">>
    /\ Last(conversation_history).role = "assistant"

(***************************************************************************)
(* C7: an iteration that starts in a state with no StateSpec ends the run  *)
(* at once: no model call, no change of either history, no dispatch, and   *)
(* current_state stays what it was.                                        *)
(***************************************************************************)
C7_StateNotFoundHalts ==
    [][(pc = "loop" /\ current_state \notin DOMAIN config.states) =>
           /\ pc' = "done"
           /\ halt' = "state_not_found"
           /\ current_state' = current_state
           /\ conversation_history' = conversation_history
           /\ search_history' = search_history
           /\ total'.llm = total.llm
           /\ iter'.dispatch = 0
           /\ iter'.decision = 0]_vars

\* the first iteration found no StateSpec for the initial state
C7_Witness ==
    /\ pc = "done"
    /\ halt = "state_not_found"
    /\ loop_count = 1
    /\ current_state = "start"
    /\ "start" \notin DOMAIN config.states
    /\ total.llm = 0

C9_Scenario(ns) ==
    /\ config = CfgScenario
    /\ loop_count = 1
    /\ iter.decision = 1
    /\ iter.response = "object"
    /\ action = "" /\ message = "m1" /\ next_state = ns /\ require_input = "0"

C9_Original ==
    C9_Scenario("end") =>
        /\ pc = "done"
        /\ CountRole(conversation_history, "assistant") = 1
        /\ Last(conversation_history) = Turn("assistant", "m1")

(***************************************************************************)
(* C9, amended: that answer adds exactly one assistant turn "m1" and the   *)
(* transition is rejected (current_state "error"), but the run goes on,    *)
(* "end" not being the terminal sentinel; the same answer with next_state  *)
(* "exit", as little in start's list and as little configured, ends the    *)
(* run.                                                                    *)
(***************************************************************************)
C9_ScenarioAmended ==
    /\ C9_Scenario("end") =>
          /\ pc = "input"
          /\ halt = ""
          /\ current_state = "error"
          /\ CountRole(conversation_history, "assistant") = 1
          /\ Last(conversation_history) = Turn("assistant", "m1")
    /\ C9_Scenario("exit") =>
          /\ pc = "done"
          /\ halt = "terminal"
          /\ current_state = "error"
          /\ CountRole(conversation_history, "assistant") = 1
          /\ Last(conversation_history) = Turn("assistant", "m1")

C9_Witness == C9_Scenario("end") /\ pc = "input"

(***************************************************************************)
(* C10: the step that ends an iteration that did not halt reads exactly    *)
(* one line and appends it as a user turn when require_input is "1", and   *)
(* otherwise reads nothing and changes no history; either way the next     *)
(* iteration is next, and no other step reads input.                       *)
(***************************************************************************)
C10_InputOnlyWhenRequired ==
    [][IF pc = "input"
       THEN /\ pc' = "loop"
            /\ IF require_input = "1"
               THEN /\ total'.input = total.input + 1
                    /\ Len(conversation_history') = Len(conversation_history) + 1
                    /\ Last(conversation_history').role = "user"
                    /\ Last(conversation_history').content \in InputLines
                    /\ SubSeq(conversation_history', 1, Len(conversation_history))
                         = conversation_history
               ELSE /\ total'.input = total.input
                    /\ conversation_history' = conversation_history
       ELSE /\ total'.input = total.input
            /\ (pc # "init" =>
                  CountRole(conversation_history', "user")
                    = CountRole(conversation_history, "user"))]_vars

\* one iteration ended with a line read, the next without
C10_Witness ==
    /\ pc = "loop"
    /\ loop_count = 2
    /\ total.input = 1
    /\ Last(conversation_history).role = "assistant"
    /\ CountRole(conversation_history, "user") = 1

(***************************************************************************)
(* C11: a transition step that rejects a next_state other than "exit" and  *)
(* "" does not end the run: it leaves current_state "error", the input     *)
(* step leads to the next iteration, and that iteration, when "error" is   *)
(* configured, makes one model call with the prompt of the "error" state.  *)
(***************************************************************************)
C11_RejectionNotFatal ==
    [][/\ (/\ pc = "transition"
           /\ next_state \notin {"exit", ""}
           /\ ~(/\ next_state \in DOMAIN config.states
                /\ \/ AllowedTransitions(config.states[current_state]) = <<>>
                   \/ next_state \in Range(AllowedTransitions(config.states[current_state])))) =>
             /\ pc' = "input"
             /\ halt' = ""
             /\ current_state' = "error"
       /\ pc = "input" => (pc' = "loop" /\ halt' = "" /\ current_state' = current_state)
       /\ (pc = "loop" /\ current_state = "error" /\ "error" \in DOMAIN config.states) =>
             /\ pc' \in {"action", "crashed"}
             /\ iter'.llm = 1
             /\ total'.llm = total.llm + 1
             /\ llm_request'.system.current_state = "error"
             /\ llm_request'.system.prompt = config.states["error"].prompt]_vars

\* the second iteration runs in "error", which start cannot reach by an
\* accepted transition, after a first iteration that answered "m1"
C11_Witness ==
    /\ config = CfgScenario
    /\ loop_count = 2
    /\ pc = "action"
    /\ IterationState = "error"
    /\ llm_request.system.prompt = "p_error"
    /\ \E i \in 1..(Len(conversation_history) - 1) :
          conversation_history[i] = Turn("assistant", "m1")

(***************************************************************************)
(* C12: when "error" is not a configured state, a rejected transition that *)
(* does not end the run is followed by an iteration that ends it with      *)
(* state-not-found and makes no model call.                                *)
(***************************************************************************)
C12_ErrorStateMissingHalts ==
    [][("error" \notin DOMAIN config.states) =>
          /\ (/\ pc = "transition"
              /\ next_state \notin {"exit", ""}
              /\ ~(/\ next_state \in DOMAIN config.states
                   /\ \/ AllowedTransitions(config.states[current_state]) = <<>>
                      \/ next_state \in Range(AllowedTransitions(config.states[current_state])))) =>
                (pc' = "input" /\ current_state' = "error")
          /\ pc = "input" => (pc' = "loop" /\ current_state' = current_state)
          /\ (pc = "loop" /\ current_state = "error") =>
                /\ pc' = "done"
                /\ halt' = "state_not_found"
                /\ total'.llm = total.llm
                /\ iter'.llm = 0
                /\ conversation_history' = conversation_history]_vars

\* the second iteration found no "error" state after the canned decision
C12_Witness ==
    /\ "error" \notin DOMAIN config.states
    /\ pc = "done"
    /\ halt = "state_not_found"
    /\ current_state = "error"
    /\ loop_count = 2
    /\ total.llm = 1
    /\ \E i \in 1..Len(conversation_history) :
          conversation_history[i].content
            = "I apologize, but I encountered an error processing your request."

(***************************************************************************)
(* C13: from a state whose transitions list is empty or absent, every      *)
(* proposed next_state that is a configured state is accepted, the current *)
(* state itself included.                                                  *)
(***************************************************************************)
C13_EmptyListUnrestricted ==
    [][(/\ pc = "transition"
        /\ \/ "transitions" \notin DOMAIN config.states[current_state]
           \/ config.states[current_state].transitions = <<>>
        /\ next_state \in DOMAIN config.states) =>
           current_state' = next_state]_vars

\* "middle", whose list is empty, was proposed from "middle" and accepted
C13_Witness ==
    /\ pc = "input"
    /\ IterationState = "middle"
    /\ AllowedTransitions(config.states["middle"]) = <<>>
    /\ next_state = "middle"
    /\ current_state = "middle"

(***************************************************************************)
(* C14: the number of assistant turns in the conversation history equals   *)
(* the number of model calls that have returned.                           *)
(***************************************************************************)
C14_AssistantTurnPerCall ==
    CountRole(conversation_history, "assistant") = total.llm

(***************************************************************************)
(* C15: every step leaves the turns already in the conversation history    *)
(* where they are: the history before the step is a prefix of the history  *)
(* after it.                                                               *)
(***************************************************************************)
C15_PrimaryAppendOnly ==
    [][/\ Len(conversation_history') >= Len(conversation_history)
       /\ SubSeq(conversation_history', 1, Len(conversation_history))
            = conversation_history]_vars

\* a history with an initial line, an action result and a line read later
C15_Witness ==
    /\ Len(conversation_history) >= 5
    /\ conversation_history[1].role = "user"
    /\ CountRole(conversation_history, "system") >= 1
    /\ CountRole(conversation_history, "user") >= 2

(***************************************************************************)
(* C16: the search history changes only by the append of the non-empty     *)
(* result of a dispatch of "search"; every other step leaves it as it is.  *)
(***************************************************************************)
C16_SideChannelOnlyBySearch ==
    [][IF /\ pc = "action"
          /\ action = "search"
          /\ iter'.dispatch = iter.dispatch + 1
          /\ pc' = "transition"
          /\ action_result' # None
          /\ action_result' # <<"">>
       THEN search_history' = Append(search_history, action_result'[1])
       ELSE search_history' = search_history]_vars

\* two search results were recorded and a line was read after each
C16_Witness ==
    /\ pc = "loop"
    /\ loop_count = 2
    /\ Len(search_history) = 2
    /\ total.input = 2

(***************************************************************************)
(* C17: when the decision names no action or one that is not registered,   *)
(* nothing is called, the run is not left, neither history changes, and    *)
(* the transition validation is next, with the same next_state.            *)
(***************************************************************************)
C17_UnregisteredActionSkipped ==
    [][(pc = "action" /\ (action = "" \/ action \notin DOMAIN available_actions)) =>
           /\ pc' = "transition"
           /\ halt' = ""
           /\ iter'.dispatch = iter.dispatch
           /\ called' = None
           /\ action_result' = None
           /\ conversation_history' = conversation_history
           /\ search_history' = search_history
           /\ next_state' = next_state
           /\ current_state' = current_state]_vars

\* "search" was named while only "calculate" is registered
C17_Witness ==
    /\ pc = "transition"
    /\ action = "search"
    /\ DOMAIN available_actions = {"calculate"}
    /\ iter.dispatch = 0
    /\ Last(conversation_history).role = "assistant"

(***************************************************************************)
(* C18, as stated: current_state is always a configured state, "exit" or   *)
(* "error", and before the run it is the configuration's initial_state.    *)
(***************************************************************************)
C18_Original ==
    /\ current_state \in DOMAIN config.states \cup {"exit", "error"}
    /\ pc = "init" =>
         current_state = (IF "initial_state" \in DOMAIN config
                          THEN config.initial_state ELSE "start")

(***************************************************************************)
(* C18, amended: current_state is always a configured state, "exit",       *)
(* "error" or the configuration's initial_state, which need not be         *)
(* configured; a current_state that is none of the first three is the      *)
(* initial one and no model call has been made; before the run it is the   *)
(* configuration's initial_state ("start" when the key is absent).         *)
(***************************************************************************)
C18_CurrentStateRange ==
    LET initial == IF "initial_state" \in DOMAIN config
                   THEN config.initial_state ELSE "start"
    IN  /\ current_state \in DOMAIN config.states \cup {"exit", "error", initial}
        /\ (current_state \notin DOMAIN config.states \cup {"exit", "error"}) =>
              (current_state = initial /\ total.llm = 0)
        /\ pc = "init" => current_state = initial

\* an accepted transition made the configured sentinel the current state
C18_Witness ==
    /\ pc = "done"
    /\ halt = "terminal"
    /\ current_state = "exit"
    /\ "exit" \in DOMAIN config.states
    /\ loop_count = 2

(***************************************************************************)
(* C19: a registration of a name leaves every other registration as it is; *)
(* a registration that another callable for the same name replaced is no   *)
(* longer bound, the name is bound to the later callable, and a dispatch   *)
(* of the name calls the callable bound to it, never a replaced one.       *)
(***************************************************************************)
C19_LastRegistrationWins ==
    /\ [](/\ \A p \in total.overwritten :
               p[1] \in DOMAIN available_actions /\ available_actions[p[1]] # p[2]
          /\ called # None =>
               /\ called[1] = available_actions[action]
               /\ <<action, called[1]>> \notin total.overwritten)
    /\ [][available_actions' # available_actions =>
            /\ pc = "init"
            /\ \E n \in DOMAIN available_actions' :
                  /\ DOMAIN available_actions' = DOMAIN available_actions \cup {n}
                  /\ \A m \in DOMAIN available_actions :
                        m # n => available_actions'[m] = available_actions[m]]_vars

\* "calculate" was registered with f and then with g, "search" is registered
\* too, and a dispatch of "calculate" called g
C19_Witness ==
    /\ <<"calculate", "f">> \in total.overwritten
    /\ DOMAIN available_actions = {"search", "calculate"}
    /\ available_actions["calculate"] = "g"
    /\ available_actions["search"] = "f"
    /\ action = "calculate"
    /\ called = <<"g">>

(***************************************************************************)
(* C20: no step changes the loaded configuration.                          *)
(***************************************************************************)
C20_ConfigUnchanged ==
    [][config' = config]_vars

\* a registration, two model calls and a dispatch have happened and the
\* configuration is the loaded one
C20_Witness ==
    /\ config = CfgExit
    /\ DOMAIN available_actions # {}
    /\ loop_count = 2
    /\ pc = "transition"
    /\ iter.dispatch = 1
    /\ total.llm = 2

C22_ActionExceptionAborts ==
    /\ [][/\ pc # "crashed"
          /\ (pc = "action" /\ pc' = "crashed") =>
                /\ ActionRegistered(action, available_actions)
                /\ halt' = "exception"
                /\ iter'.dispatch = iter.dispatch + 1
                /\ conversation_history' = conversation_history
                /\ search_history' = search_history
                /\ current_state' = current_state
                /\ action_result' = None]_vars
    /\ [](iter.raised =>
             /\ pc = "crashed"
             /\ halt = "exception"
             /\ iter.dispatch = 1
             /\ iter.decision = 0
             /\ current_state = IterationState
             /\ action_result = None
             /\ Len(search_history) = Len(llm_request.system.search_history_block)
             /\ conversation_history
                  = Append(llm_request.messages, Turn("assistant", message)))

\* the callable registered for "calculate" was called and raised in the
\* second iteration, after the answer "m1" was recorded
C22_Witness ==
    /\ pc = "crashed"
    /\ halt = "exception"
    /\ loop_count = 2
    /\ action = "calculate"
    /\ called = <<"f">>
    /\ iter.raised
    /\ Last(conversation_history) = Turn("assistant", "m1")

(***************************************************************************)
(* C23: run() returns in exactly two ways: the state lookup at the top of  *)
(* an iteration finds nothing, or the next_state of the iteration is       *)
(* "exit" or "".  Nothing else ends the loop: an accepted next_state that  *)
(* is neither leads to the input step, the input step always leads to the  *)
(* next iteration, without reading when require_input is not "1", and an   *)
(* iteration whose state is found calls the model.                         *)
(***************************************************************************)
C23_TwoWaysToHalt ==
    /\ [](pc = "done" =>
             \/ /\ halt = "state_not_found"
                /\ current_state \notin DOMAIN config.states
                /\ iter.llm = 0
             \/ /\ halt = "terminal"
                /\ next_state \in {"exit", ""}
                /\ iter.decision = 1)
    /\ [][/\ pc # "done"
          /\ pc' = "done" <=>
                \/ pc = "loop" /\ current_state \notin DOMAIN config.states
                \/ pc = "transition" /\ next_state \in {"exit", ""}
          /\ (pc = "transition" /\ next_state \notin {"exit", ""}) =>
                (pc' = "input" /\ halt' = "")
          /\ pc = "input" =>
                /\ pc' = "loop"
                /\ halt' = ""
                /\ current_state' = current_state
                /\ require_input # "1" =>
                      /\ conversation_history' = conversation_history
                      /\ total'.input = total.input
          /\ (pc = "loop" /\ current_state \in DOMAIN config.states) =>
                (iter'.llm = 1 /\ pc' \in {"action", "crashed"})]_vars

\* two iterations with accepted transitions and no input are over, no line
\* was ever read and the run goes on
C23_Witness ==
    /\ pc = "loop"
    /\ loop_count = 2
    /\ halt = ""
    /\ total.llm = 2
    /\ total.input = 0
    /\ current_state \in DOMAIN config.states \ {"error"}

(***************************************************************************)
(* C24: when the response has no require_input key, require_input is "1"   *)
(* for the iteration, and unless the iteration ends the run its input step *)
(* reads one line and appends it as a user turn before the next iteration. *)
(***************************************************************************)
C24_OmittedRequireInputReads ==
    /\ []("require_input" \in iter.defaulted => require_input = "1")
    /\ [][(pc = "input" /\ "require_input" \in iter.defaulted) =>
             /\ pc' = "loop"
             /\ total'.input = total.input + 1
             /\ Len(conversation_history') = Len(conversation_history) + 1
             /\ Last(conversation_history').role = "user"]_vars

\* a response without require_input and with an accepted next_state has
\* brought the iteration to its input step
C24_Witness ==
    /\ pc = "input"
    /\ iter.response = "object"
    /\ "require_input" \in iter.defaulted
    /\ require_input = "1"
    /\ next_state = "middle"
    /\ current_state = "middle"

(***************************************************************************)
(* C25: when the response has no next_state key, next_state is "" for the  *)
(* iteration: the transition step rejects it, sets current_state to        *)
(* "error" and ends the run, so that the iteration reads no input.         *)
(***************************************************************************)
C25_OmittedNextStateHalts ==
    /\ [](/\ "next_state" \in iter.defaulted => (next_state = "" /\ pc # "input")
          /\ (pc = "done" /\ "next_state" \in iter.defaulted) =>
                /\ halt = "terminal"
                /\ current_state = "error"
                /\ \E i \in 1..Len(stdout) : stdout[i].prefix = "Error: ")
    /\ [][(pc = "transition" /\ "next_state" \in iter.defaulted) =>
             /\ pc' = "done"
             /\ halt' = "terminal"
             /\ current_state' = "error"
             /\ conversation_history' = conversation_history
             /\ total'.input = total.input]_vars

\* an iteration in "start" whose response had no next_state and asked for
\* input has ended the run
C25_Witness ==
    /\ pc = "done"
    /\ halt = "terminal"
    /\ "next_state" \in iter.defaulted
    /\ require_input = "1"
    /\ IterationState = "start"
    /\ current_state = "error"
    /\ total.input = 0

\* the turns an iteration adds after the model call: the assistant turn, and
\* the system turn a truthy result of another action than "search" gives
C26_Assistant == <<Turn("assistant", message)>>

C26_ResultTurns ==
    {<<>>} \cup {<<Turn("system", "Action result: " \o r[1])>> :
                    r \in {x \in ActionResults : x # None /\ x[1] # ""}}

(***************************************************************************)
(* C26: the steps of an iteration come in one order.  Before the dispatch  *)
(* the iteration has added the assistant turn and nothing else; before the *)
(* transition decision it has added the assistant turn and then at most    *)
(* the system turn of the action result; the decision is taken before the  *)
(* terminal check lets the run end or go on; the input step adds at most   *)
(* one user turn, after these.                                             *)
(***************************************************************************)
C26_StepOrder ==
    /\ [](/\ pc = "action" =>
               /\ iter.llm = 1 /\ iter.dispatch = 0 /\ iter.decision = 0
               /\ conversation_history = llm_request.messages \o C26_Assistant
          /\ pc = "transition" =>
               /\ iter.llm = 1 /\ iter.dispatch <= 1 /\ iter.decision = 0
               /\ \E s \in C26_ResultTurns :
                     conversation_history
                       = llm_request.messages \o C26_Assistant \o s
          /\ (pc = "input" \/ (pc = "done" /\ halt = "terminal")) =>
               /\ iter.llm = 1 /\ iter.dispatch <= 1 /\ iter.decision = 1
               /\ \E s \in C26_ResultTurns :
                     conversation_history
                       = llm_request.messages \o C26_Assistant \o s)
    /\ [][/\ pc = "loop" => pc' \in {"action", "crashed", "done"}
          /\ pc = "action" => pc' \in {"transition", "crashed"}
          /\ pc = "transition" => pc' \in {"input", "done"}
          /\ pc = "input" =>
               /\ pc' = "loop"
               /\ \/ conversation_history' = conversation_history
                  \/ \E u \in InputLines :
                        conversation_history'
                          = Append(conversation_history, Turn("user", u))]_vars

\* the iteration has added an assistant turn and then a system turn, and
\* its input step is about to add the user turn
C26_Witness ==
    /\ pc = "input"
    /\ require_input = "1"
    /\ action = "calculate"
    /\ conversation_history
         = llm_request.messages
           \o <<Turn("assistant", "m1"), Turn("system", "Action result: r1")>>

(***************************************************************************)
(* C27: when the run has ended on a next_state that is "exit" or "", the   *)
(* iteration has recorded and printed its message, has called the action   *)
(* it named if that is registered, and has put a truthy result of the call *)
(* into the search history or, as a system turn, into the conversation     *)
(* history.                                                                *)
(***************************************************************************)
C27_TerminalIterationComplete ==
    (pc = "done" /\ halt = "terminal") =>
       LET n == Len(llm_request.messages)
           k == Len(llm_request.system.search_history_block)
       IN  /\ Len(conversation_history) > n
           /\ conversation_history[n + 1] = Turn("assistant", message)
           /\ \E i \in 1..Len(stdout) : stdout[i] = Line("Agent: ", message)
           /\ (action # "" /\ action \in DOMAIN available_actions) =>
                 /\ iter.dispatch = 1
                 /\ called = <<available_actions[action]>>
                 /\ (action_result # None /\ action_result # <<"">>) =>
                       IF action = "search"
                       THEN /\ Len(search_history) = k + 1
                            /\ search_history[k + 1] = action_result[1]
                       ELSE /\ Len(conversation_history) = n + 2
                            /\ conversation_history[n + 2]
                                 = Turn("system", "Action result: "
                                                    \o action_result[1])

\* the run ended on an omitted or empty next_state in an iteration that
\* called "search" and recorded its result
C27_Witness ==
    /\ pc = "done"
    /\ halt = "terminal"
    /\ next_state = ""
    /\ message = "m1"
    /\ action = "search"
    /\ iter.dispatch = 1
    /\ action_result = <<"r1">>
    /\ Last(search_history) = "r1"

(***************************************************************************)
(* C28: when the run has ended on a next_state that is "exit" or "" and    *)
(* that the validation rejected, current_state is "error" and no longer    *)
(* the state of the iteration; when the run has ended, current_state is    *)
(* "exit" only if "exit" is a configured state and the transitions list of *)
(* the state of the iteration is empty or holds it.                        *)
(***************************************************************************)
C28_FinalStateAfterTerminal ==
    (pc = "done" /\ halt = "terminal") =>
       LET allowed == IF "transitions" \in DOMAIN config.states[IterationState]
                      THEN config.states[IterationState].transitions
                      ELSE <<>>
           accepted == /\ next_state \in DOMAIN config.states
                       /\ allowed = <<>> \/ next_state \in Range(allowed)
       IN  /\ ~accepted =>
                 /\ current_state = "error"
                 /\ IterationState # "error" => current_state # IterationState
           /\ accepted => (next_state = "exit" /\ current_state = "exit")
           /\ current_state = "exit" =>
                 /\ "exit" \in DOMAIN config.states
                 /\ allowed = <<>> \/ "exit" \in Range(allowed)

\* "exit" is configured but not in the list of "middle": the run ended in
\* "error"
C28_Witness ==
    /\ pc = "done"
    /\ halt = "terminal"
    /\ config = CfgExit
    /\ IterationState = "middle"
    /\ next_state = "exit"
    /\ current_state = "error"

(***************************************************************************)
(* C29: in every state and whatever its transitions list, a transition     *)
(* step whose next_state is "error", or is rejected, leaves current_state  *)
(* "error".                                                                *)
(***************************************************************************)
C29_ErrorAlwaysReachable ==
    [][(/\ pc = "transition"
        /\ \/ next_state = "error"
           \/ next_state \notin DOMAIN config.states
           \/ /\ AllowedTransitions(config.states[current_state]) # <<>>
              /\ next_state \notin
                   Range(AllowedTransitions(config.states[current_state]))) =>
           current_state' = "error"]_vars

\* "error" was proposed from "start", whose list holds "middle" only, and
\* the iteration goes on in "error"
C29_Witness ==
    /\ pc = "input"
    /\ IterationState = "start"
    /\ AllowedTransitions(config.states["start"]) = <<"middle">>
    /\ "error" \in DOMAIN config.states
    /\ next_state = "error"
    /\ current_state = "error"

(***************************************************************************)
(* C30: the search history has as many entries as there were calls of      *)
(* "search" that returned a truthy result, the conversation history has as *)
(* many system turns as there were calls of other actions that returned a  *)
(* truthy result, and no step adds to both histories.                      *)
(***************************************************************************)
C30_LedgerCounts ==
    /\ [](/\ Len(search_history) = total.search_hits
          /\ CountRole(conversation_history, "system") = total.other_hits)
    /\ [][~(/\ Len(search_history') > Len(search_history)
            /\ Len(conversation_history') > Len(conversation_history))]_vars

\* one call of "search" and one call of "calculate" returned a result
C30_Witness ==
    /\ total.search_hits = 1
    /\ total.other_hits = 1
    /\ Len(search_history) = 1
    /\ CountRole(conversation_history, "system") = 1

(***************************************************************************)
(* C31: the step that starts run() appends its argument as a user turn     *)
(* when the argument is a non-empty string and appends nothing when it is  *)
(* None or ""; the input step of an iteration that asks for input appends  *)
(* the line it read as a user turn whatever the line is, "" included.      *)
(***************************************************************************)
C31_InitialInputVersusReadLine ==
    [][/\ (pc = "init" /\ pc' = "loop") =>
             IF run_input' # None /\ run_input'[1] # ""
             THEN conversation_history'
                    = Append(conversation_history, Turn("user", run_input'[1]))
             ELSE conversation_history' = conversation_history
       /\ (pc = "input" /\ require_input = "1") =>
             /\ total'.input = total.input + 1
             /\ \E u \in InputLines :
                   conversation_history'
                     = Append(conversation_history, Turn("user", u))
       /\ (pc = "loop" /\ loop_count = 0 /\ iter'.llm = 1) =>
             llm_request'.messages = conversation_history]_vars

\* run() was started with None or "" and added no turn; the first
\* iteration read an empty line and added it
C31_Witness ==
    /\ pc = "loop"
    /\ loop_count = 1
    /\ total.input = 1
    /\ conversation_history = <<Turn("assistant", "m1"), Turn("user", "")>>

(***************************************************************************)
(* C32: no step of the editor removes the state that initial_state names;  *)
(* when delete_state answers that the state is the initial state, that it  *)
(* was not found, or that none is selected, the states, their transitions  *)
(* lists and initial_state are as before.                                  *)
(***************************************************************************)
C32_InitialStateNotDeleted ==
    [][/\ \A s \in DOMAIN config_data.states :
             (/\ "initial_state" \in DOMAIN config_data
              /\ config_data.initial_state = s) =>
                /\ s \in DOMAIN config_data'.states
                /\ "initial_state" \in DOMAIN config_data'
       /\ (/\ messagebox' # messagebox
           /\ messagebox'.kind = "error"
           /\ messagebox'.text \in {"Cannot delete initial state: ",
                                    "State not found: ",
                                    "No state selected"}) =>
             /\ config_data' = config_data
             /\ key_order' = key_order
             /\ shared' = shared]_vars

\* the deletion of the initial state "a" was confirmed and refused; the
\* three states are there and "b" still names "a"
C32_Witness ==
    /\ messagebox = Msg("error", "Cannot delete initial state: ", "a")
    /\ "initial_state" \in DOMAIN config_data
    /\ config_data.initial_state = "a"
    /\ DOMAIN config_data.states = {"a", "b", "c"}
    /\ "transitions" \in DOMAIN config_data.states["b"]
    /\ "a" \in Range(config_data.states["b"].transitions)

(***************************************************************************)
(* C33: after a step that deleted a state, no transitions list of a        *)
(* remaining state holds the name of the deleted state.                    *)
(***************************************************************************)
C33_DeletedStateUnreferenced ==
    [][\A s \in DOMAIN config_data.states :
          s \notin DOMAIN config_data'.states =>
             \A n \in DOMAIN config_data'.states :
                "transitions" \in DOMAIN config_data'.states[n] =>
                   s \notin Range(config_data'.states[n].transitions)]_vars

\* initial_state names a state of the configuration
C34_InitialNamesState(cd) ==
    "initial_state" \in DOMAIN cd /\ cd.initial_state \in DOMAIN cd.states

(***************************************************************************)
(* C34: every step of the editor keeps initial_state the name of an        *)
(* existing state if it was one before the step; a step changes            *)
(* initial_state only to the non-empty name of an existing state, and when *)
(* update_initial_state answers that the state is invalid, the name was    *)
(* empty or no state and the configuration is as before.                   *)
(***************************************************************************)
C34_InitialStateStaysValid ==
    [][/\ C34_InitialNamesState(config_data) => C34_InitialNamesState(config_data')
       /\ (\/ ("initial_state" \in DOMAIN config_data')
                # ("initial_state" \in DOMAIN config_data)
           \/ /\ "initial_state" \in DOMAIN config_data
              /\ config_data'.initial_state # config_data.initial_state) =>
             /\ "initial_state" \in DOMAIN config_data'
             /\ config_data'.initial_state # ""
             /\ config_data'.initial_state \in DOMAIN config_data.states
             /\ config_data'.states = config_data.states
       /\ (messagebox' # messagebox /\ messagebox'.text = "Invalid state: ") =>
             /\ messagebox'.arg = "" \/ messagebox'.arg \notin DOMAIN config_data.states
             /\ config_data' = config_data]_vars

\* initial_state was moved from "a" to "b", "a" was deleted and "c" added,
\* and an update to "z" was then refused
C34_Witness ==
    /\ "initial_state" \in DOMAIN config_data
    /\ config_data.initial_state = "b"
    /\ DOMAIN config_data.states = {"b", "c"}
    /\ messagebox = Msg("error", "Invalid state: ", "z")

====
